---- MODULE Spec2Model ----
(***************************************************************************)
(* A model of src/laser_control.py: the Laser controller (configuration,   *)
(* connect, the command channel _send_command, the watchdog kicker, the    *)
(* fire sequence, the setters) and the LaserStatusResponse codec.          *)
(*                                                                         *)
(* Python values are records [ty, n, s]: ty is the Python type, n the      *)
(* numeric value in units of 1/Unit (so that burstCount / repRate is exact *)
(* for the rates 1..5 and tenths are exact), s the characters of a str or  *)
(* bytes value (for a LaserStatusResponse: the names of its true fields).  *)
(***************************************************************************)
EXTENDS Integers, Sequences, FiniteSets, TLC

\* ------------------------------------------------------------ Python values

Unit == 3 * 4 * 5

Py(ty, n, s) == [ty |-> ty, n |-> n, s |-> s]
PyInt(i) == Py("int", i * Unit, <<>>)
PyTenths(t) == Py("float", t * (Unit \div 10), <<>>)
PyNone == Py("NoneType", 0, <<>>)
PyTrue == Py("bool", Unit, <<>>)
PyFalse == Py("bool", 0, <<>>)
PyBool(b) == IF b THEN PyTrue ELSE PyFalse
PyBytes(s) == Py("bytes", 0, s)
PyStr(s) == Py("str", 0, s)

IsNum(v) == v.ty \in {"int", "float", "bool"}

\* a == b: numbers compare by value, str and bytes by type and content, None
\* with None; a LaserStatusResponse defines no __eq__, so it equals only
\* itself, never a str, bytes or number.
PyEq(a, b) ==
    IF IsNum(a) /\ IsNum(b) THEN a.n = b.n
    ELSE IF a.ty = "LaserStatusResponse" \/ b.ty = "LaserStatusResponse" THEN FALSE
    ELSE a.ty = b.ty /\ a.s = b.s

PyNe(a, b) == ~PyEq(a, b)

\* bool(v)
Truthy(v) ==
    IF IsNum(v) THEN v.n # 0
    ELSE IF v.ty = "NoneType" THEN FALSE
    ELSE IF v.ty \in {"str", "bytes"} THEN Len(v.s) > 0
    ELSE TRUE

\* float(v) of a number
ToFloat(v) == Py("float", v.n, <<>>)

\* a / b (true division) of two numbers, b # 0
TrueDiv(a, b) == Py("float", (a.n * Unit) \div b.n, <<>>)

Digits == <<"0", "1", "2", "3", "4", "5", "6", "7", "8", "9">>

RECURSIVE DecStr(_)
DecStr(i) == IF i < 10 THEN <<Digits[i + 1]>>
             ELSE DecStr(i \div 10) \o <<Digits[(i % 10) + 1]>>

\* str(v): "5" for the int 5, "5.0" for the float 5.0, "0.1" for 0.1,
\* "b'..'" for bytes, "None" for None.
Str(v) ==
    IF v.ty = "int" THEN DecStr(v.n \div Unit)
    ELSE IF v.ty = "float"
        THEN DecStr(v.n \div Unit) \o <<".">> \o DecStr(((v.n % Unit) * 10) \div Unit)
    ELSE IF v.ty = "bytes" THEN <<"b", "'">> \o v.s \o <<"'">>
    ELSE IF v.ty = "NoneType" THEN <<"N", "o", "n", "e">>
    ELSE v.s

\* v[:-1]
DropLast(s) == SubSeq(s, 1, Len(s) - 1)

IsDigit(c) == \E i \in 1..10 : Digits[i] = c
DigitVal(c) == (CHOOSE i \in 1..10 : Digits[i] = c) - 1

RECURSIVE ParseDec(_)
ParseDec(s) == IF Len(s) = 0 THEN 0
               ELSE ParseDec(DropLast(s)) * 10 + DigitVal(s[Len(s)])

\* int(s) accepts a non-empty run of decimal digits (the inputs modelled carry
\* no sign and no blanks); anything else raises ValueError.
IsIntLiteral(s) == Len(s) > 0 /\ \A i \in 1..Len(s) : IsDigit(s[i])

\* ------------------------------------------------------- LaserStatusResponse

\* The bit of each field, in the order of __init__ and __str__.
StatusBits == <<
    <<"laser_enabled", 1>>, <<"laser_active", 2>>,
    <<"diode_external_trigger", 8>>, <<"external_interlock", 64>>,
    <<"resonator_over_temp", 128>>, <<"electrical_over_temp", 256>>,
    <<"power_failure", 512>>, <<"ready_to_enable", 1024>>,
    <<"ready_to_fire", 2048>>, <<"low_power_mode", 4096>>,
    <<"high_power_mode", 8192>> >>

\* bool(i & bit) for a power of two
BitAnd(i, bit) == ((i \div bit) % 2) = 1

RECURSIVE TrueFields(_, _)
TrueFields(i, k) ==
    IF k > Len(StatusBits) THEN <<>>
    ELSE (IF BitAnd(i, StatusBits[k][2]) THEN <<StatusBits[k][1]>> ELSE <<>>)
         \o TrueFields(i, k + 1)

\* __init__ does not read the bit of laser_enabled
LaserStatusResponse_FromActive(i) ==
    Py("LaserStatusResponse", 0, TrueFields(i, 2))

\* LaserStatusResponse(response): i = int(response), one field per bit.
LaserStatusResponse(i) == Py("LaserStatusResponse", 0, TrueFields(i, 1))

RECURSIVE SumBits(_, _)
SumBits(fields, k) ==
    IF k > Len(StatusBits) THEN 0
    ELSE (IF \E j \in 1..Len(fields) : fields[j] = StatusBits[k][1]
          THEN StatusBits[k][2] ELSE 0) + SumBits(fields, k + 1)

\* __str__ leaves out the bit of laser_enabled
StatusStr_FromActive(status) == DecStr(SumBits(status.s, 2))

\* LaserStatusResponse.__str__: the sum of the bits of the true fields.
StatusStr(status) == DecStr(SumBits(status.s, 1))

\* ------------------------------------------------------------ Laser constants

MANUAL_ENERGY == 0
LOW_ENERGY == 1
HIGH_ENERGY == 2

CONTINUOUS == 0
SINGLE_SHOT == 1
BURST == 2

device_address == <<"L", "A">>

OK == PyBytes(<<"O", "K", "\r">>)

\* The keyword arguments of __init__ / editConstants and the configuration
\* they produce.
DefaultArgs ==
    [pulseMode |-> PyInt(0), pulsePeriod |-> PyInt(0), repRate |-> PyInt(1),
     burstCount |-> PyInt(10), diodeCurrent |-> PyTenths(1),
     energyMode |-> PyInt(0), pulseWidth |-> PyInt(10),
     diodeTrigger |-> PyInt(0)]

ConfigOf(a) ==
    [pulseMode |-> a.pulseMode, pulsePeriod |-> a.pulsePeriod,
     repRate |-> a.repRate, burstCount |-> a.burstCount,
     diodeCurrent |-> a.diodeCurrent, energyMode |-> a.energyMode,
     pulseWidth |-> a.pulseWidth, diodeTrigger |-> a.diodeTrigger,
     burstDuration |-> TrueDiv(a.burstCount, a.repRate)]

\* ----------------------------------------------------------------- commands

CmdFL1 == <<"F", "L", " ", "1">>
CmdFL0 == <<"F", "L", " ", "0">>
CmdSS == <<"S", "S", "?">>
CmdEN == <<"E", "N", "?">>
CmdEN1 == <<"E", "N", " ", "1">>
CmdEN0 == <<"E", "N", " ", "0">>
CmdRS == <<"R", "S">>

\* the frame is left without its terminator
Frame_NoTerminator(c) == <<";">> \o device_address \o <<":">> \o c

\* cmd_complete = ";" + self._device_address + ":" + cmd + "\r"
Frame(c) == <<";">> \o device_address \o <<":">> \o c \o <<"\r">>

\* What the device may answer to an exchange: the acknowledgement, error
\* frames, a frame cut short by the read timeout ("?5"), armed / status
\* payloads, nothing within the timeout (b"" or, by the docstring, None).
Responses ==
    { OK,
      PyBytes(<<"?", "5", "\r">>), PyBytes(<<"?", "8", "\r">>),
      PyBytes(<<"?", "\r">>), PyBytes(<<"?", "5">>),
      PyBytes(<<"1", "\r">>), PyBytes(<<"0", "\r">>),
      PyBytes(<<"3", "0", "7", "5", "\r">>),
      PyBytes(<<"1", "1", "2", "6", "7", "\r">>),
      PyBytes(<<>>), PyNone }

\* ----------------------------------------------------------- error taxonomy

CodeBytes(d) == PyBytes(<<"?", d>>)

get_error_code_description(code) ==
    IF PyEq(code, CodeBytes("1")) THEN PyStr(<<"Command not recognized.">>)
    ELSE IF PyEq(code, CodeBytes("2")) THEN PyStr(<<"Missing command keyword.">>)
    ELSE IF PyEq(code, CodeBytes("3")) THEN PyStr(<<"Invalid command keyword.">>)
    ELSE IF PyEq(code, CodeBytes("4")) THEN PyStr(<<"Missing Parameter">>)
    ELSE IF PyEq(code, CodeBytes("5")) THEN PyStr(<<"Invalid Parameter">>)
    ELSE IF PyEq(code, CodeBytes("6"))
        THEN PyStr(<<"Query only. Command needs a question mark.">>)
    ELSE IF PyEq(code, CodeBytes("7"))
        THEN PyStr(<<"Invalid query. Command does not have a query function.">>)
    ELSE IF PyEq(code, CodeBytes("8"))
        THEN PyStr(<<"Command unavailable in current system state.">>)
    ELSE PyStr(<<"Error description not found, response code given: ">> \o Str(code))

\* ------------------------------------------------------------- call results

NoResult == [kind |-> "none", exc |-> "", val |-> PyNone]
Returned(v) == [kind |-> "return", exc |-> "", val |-> v]
Raised(exc, msg) == [kind |-> "raise", exc |-> exc, val |-> msg]

LaserCommandError(msg) == Raised("LaserCommandError", msg)

\* ------------------------------------------------------------------- state

Threads == {"t1", "t2"}
NoThread == "none"

\* The callers make at most MaxCalls calls of the interface in a run.
MaxCalls == 3

VARIABLES
    connected,       \* self.connected
    ser,             \* self._ser: <<>> is None, <<s>> a Serial object
    startup,         \* self._startup
    kicker_control,  \* self._kicker_control
    lock,            \* self._lock: the thread holding it, or NoThread
    config,          \* pulseMode .. diodeTrigger, burstDuration
    pc,              \* where each caller's thread is
    call,            \* the public operation it runs and its argument
    stage,           \* the step of the operation it is at
    cmd,             \* the argument of the _send_command it is in
    locals,          \* the operation's local variables
    result,          \* how its operation ended
    sent,            \* the commands it has written in this operation
    wire,            \* what was written to the transport and not yet answered
    calls,           \* how many operations the callers have called
    codec            \* a status word and the LaserStatusResponse made of it

laser_vars == <<connected, ser, startup, kicker_control, lock, config, pc,
                call, stage, cmd, locals, result, sent, wire, calls>>

vars == <<laser_vars, codec>>

NoCall == [op |-> "", arg |-> PyNone]
NoLocals == [response |-> PyNone, fire_response |-> PyNone, status |-> PyNone,
             armed |-> PyNone, cmd_strings |-> <<>>, i |-> 0]
NoWrite == [by |-> NoThread, data |-> PyNone]

Set(f, t, v) == [f EXCEPT ![t] = v]

\* no LaserStatusResponse has been made
NoCodec == [word |-> 0, status |-> PyNone, text |-> <<>>, again |-> PyNone]

\* __init__ leaves the kicker switched on
LaserInit_KickerOn ==
    /\ connected = FALSE
    /\ ser = <<>>
    /\ startup = TRUE
    /\ kicker_control = TRUE
    /\ lock = NoThread
    /\ config = ConfigOf(DefaultArgs)
    /\ pc = [t \in Threads |-> "idle"]
    /\ call = [t \in Threads |-> NoCall]
    /\ stage = [t \in Threads |-> ""]
    /\ cmd = [t \in Threads |-> <<>>]
    /\ locals = [t \in Threads |-> NoLocals]
    /\ result = [t \in Threads |-> NoResult]
    /\ sent = [t \in Threads |-> <<>>]
    /\ wire = NoWrite
    /\ calls = 0

\* Laser.__init__ with its default arguments; no caller has called anything.
LaserInit ==
    /\ connected = FALSE
    /\ ser = <<>>
    /\ startup = TRUE
    /\ kicker_control = FALSE
    /\ lock = NoThread
    /\ config = ConfigOf(DefaultArgs)
    /\ pc = [t \in Threads |-> "idle"]
    /\ call = [t \in Threads |-> NoCall]
    /\ stage = [t \in Threads |-> ""]
    /\ cmd = [t \in Threads |-> <<>>]
    /\ locals = [t \in Threads |-> NoLocals]
    /\ result = [t \in Threads |-> NoResult]
    /\ sent = [t \in Threads |-> <<>>]
    /\ wire = NoWrite
    /\ calls = 0

Init == LaserInit /\ codec = NoCodec

\* self._ser.write(data) by thread t
Write(t, data) == wire' = [by |-> t, data |-> data]

\* ----------------------------------------------- how a step of a call ends

\* the operation ends: it returns or raises to its caller
Done(t, res) ==
    /\ pc' = Set(pc, t, "done")
    /\ result' = Set(result, t, res)
    /\ UNCHANGED <<cmd, stage>>

\* the operation goes on to self._send_command(c), at its step stg
SendNext(t, c, stg) ==
    /\ pc' = Set(pc, t, "send")
    /\ cmd' = Set(cmd, t, c)
    /\ stage' = Set(stage, t, stg)
    /\ UNCHANGED result

\* the operation goes into time.sleep, at its step stg
SleepNext(t, stg) ==
    /\ pc' = Set(pc, t, "sleep")
    /\ stage' = Set(stage, t, stg)
    /\ UNCHANGED <<cmd, result>>

\* ------------------------------------------------------------------ setters

Setters == {"set_pulse_mode", "set_pulse_period", "set_diode_trigger",
            "set_pulse_width", "set_burst_count", "set_rep_rate",
            "set_diode_current", "set_energy_mode"}

\* v in (0, 1, 2)
In012(v) == \E k \in {0, 1, 2} : PyEq(v, PyInt(k))

\* the repetition rate is checked against the 1 to 30 of editConstants
SetterInvalid_RateTo30(op, v) ==
    CASE op = "set_pulse_mode" -> ~In012(v) \/ ~(v.ty = "int")
      [] op = "set_pulse_period" -> FALSE
      [] op = "set_diode_trigger" ->
            (PyNe(v, PyInt(0)) /\ PyNe(v, PyInt(1))) \/ ~(v.ty = "int")
      [] op = "set_pulse_width" ->
            (v.ty # "int" /\ v.ty # "float") \/ v.n <= 0
      [] op = "set_burst_count" -> v.n <= 0 \/ ~(v.ty = "int")
      [] op = "set_rep_rate" ->
            ~(v.ty = "int") \/ v.n < 1 * Unit \/ v.n > 30 * Unit
      [] op = "set_diode_current" ->
            (v.ty # "int" /\ v.ty # "float") \/ v.n <= 0
      [] op = "set_energy_mode" -> v.ty # "int" \/ ~In012(v)

\* the guard of the setter's raise ValueError
SetterInvalid(op, v) ==
    CASE op = "set_pulse_mode" -> ~In012(v) \/ ~(v.ty = "int")
      [] op = "set_pulse_period" -> FALSE
      [] op = "set_diode_trigger" ->
            (PyNe(v, PyInt(0)) /\ PyNe(v, PyInt(1))) \/ ~(v.ty = "int")
      [] op = "set_pulse_width" ->
            (v.ty # "int" /\ v.ty # "float") \/ v.n <= 0
      [] op = "set_burst_count" -> v.n <= 0 \/ ~(v.ty = "int")
      [] op = "set_rep_rate" ->
            ~(v.ty = "int") \/ v.n < 1 * Unit \/ v.n > 5 * Unit
      [] op = "set_diode_current" ->
            (v.ty # "int" /\ v.ty # "float") \/ v.n <= 0
      [] op = "set_energy_mode" -> v.ty # "int" \/ ~In012(v)

\* the command the setter sends: keyword + " " + str(value)
SetterCmd(op, v) ==
    CASE op = "set_pulse_mode" -> <<"P", "M", " ">> \o Str(v)
      [] op = "set_pulse_period" -> <<"P", "E", " ">> \o Str(v)
      [] op = "set_diode_trigger" -> <<"D", "T", " ">> \o Str(v)
      [] op = "set_pulse_width" -> <<"D", "W", " ">> \o Str(ToFloat(v))
      [] op = "set_burst_count" -> <<"B", "C", " ">> \o Str(v)
      [] op = "set_rep_rate" -> <<"R", "R", " ">> \o Str(v)
      [] op = "set_diode_current" -> <<"D", "C", " ">> \o Str(v)
      [] op = "set_energy_mode" -> <<"E", "M", " ">> \o Str(v)

\* set_diode_current commits without touching the energy mode
SetterCommit_KeepEnergy(op, v, cfg) ==
    CASE op = "set_pulse_mode" -> [cfg EXCEPT !.pulseMode = v]
      [] op = "set_pulse_period" -> [cfg EXCEPT !.pulsePeriod = ToFloat(v)]
      [] op = "set_diode_trigger" -> [cfg EXCEPT !.diodeTrigger = v]
      [] op = "set_pulse_width" -> [cfg EXCEPT !.pulseWidth = ToFloat(v)]
      [] op = "set_burst_count" -> [cfg EXCEPT !.burstCount = v]
      [] op = "set_rep_rate" -> [cfg EXCEPT !.repRate = v]
      [] op = "set_diode_current" -> [cfg EXCEPT !.diodeCurrent = v]
      [] op = "set_energy_mode" -> [cfg EXCEPT !.energyMode = v]

\* what the setter assigns once the device has answered b"OK\r"
SetterCommit(op, v, cfg) ==
    CASE op = "set_pulse_mode" -> [cfg EXCEPT !.pulseMode = v]
      [] op = "set_pulse_period" -> [cfg EXCEPT !.pulsePeriod = ToFloat(v)]
      [] op = "set_diode_trigger" -> [cfg EXCEPT !.diodeTrigger = v]
      [] op = "set_pulse_width" -> [cfg EXCEPT !.pulseWidth = ToFloat(v)]
      [] op = "set_burst_count" -> [cfg EXCEPT !.burstCount = v]
      [] op = "set_rep_rate" -> [cfg EXCEPT !.repRate = v]
      [] op = "set_diode_current" ->
            [cfg EXCEPT !.diodeCurrent = v, !.energyMode = PyInt(0)]
      [] op = "set_energy_mode" -> [cfg EXCEPT !.energyMode = v]

\* The arguments the callers try: values inside and outside each domain.
SetterArgs(op) ==
    CASE op = "set_pulse_mode" -> {PyInt(0), PyInt(1), PyInt(2), PyInt(3)}
      [] op = "set_pulse_period" -> {PyInt(3)}
      [] op = "set_diode_trigger" -> {PyInt(0), PyInt(1), PyInt(2)}
      [] op = "set_pulse_width" -> {PyInt(5), PyInt(0)}
      [] op = "set_burst_count" -> {PyInt(20), PyInt(0), PyTenths(25)}
      [] op = "set_rep_rate" -> {PyInt(5), PyInt(6), PyInt(0)}
      [] op = "set_diode_current" -> {PyInt(2), PyInt(0)}
      [] op = "set_energy_mode" -> {PyInt(0), PyInt(1), PyInt(2), PyInt(3)}

\* update_settings: the seven command strings, built before any is sent
UpdateCmds(cfg) ==
    << <<"R", "R", " ">> \o Str(cfg.repRate),
       <<"B", "C", " ">> \o Str(cfg.burstCount),
       <<"D", "C", " ">> \o Str(cfg.diodeCurrent),
       <<"E", "M", " ">> \o Str(cfg.energyMode),
       <<"P", "M", " ">> \o Str(cfg.pulseMode),
       <<"D", "W", " ">> \o Str(cfg.pulseWidth),
       <<"D", "T", " ">> \o Str(cfg.pulseMode) >>

\* ------------------------------------------------- get_status, check_armed

\* get_status, from the response of 'SS?' on
GetStatusResult(r) ==
    IF r.ty = "NoneType" THEN Raised("TypeError", PyNone)
    ELSE LET response == PyStr(DropLast(r.s)) IN
        IF Len(response.s) = 0 THEN Raised("IndexError", PyNone)
        ELSE IF response.s[1] = "?"
            THEN LaserCommandError(get_error_code_description(response))
        ELSE IF ~IsIntLiteral(response.s) THEN Raised("ValueError", PyNone)
        ELSE Returned(LaserStatusResponse(ParseDec(response.s)))

\* check_armed, from the response of 'EN?' on
CheckArmedResult(r) ==
    IF r.ty = "NoneType" THEN Raised("TypeError", PyNone)
    ELSE IF PyEq(PyBytes(DropLast(r.s)), PyBytes(<<"?">>))
        THEN LaserCommandError(get_error_code_description(r))
    ELSE IF Len(r.s) = 2
        THEN Returned(PyBool(PyEq(PyBytes(DropLast(r.s)), PyBytes(<<"1">>))))
    ELSE Returned(PyNone)

\* ord(c) of the characters the responses are made of
Ord(c) ==
    CASE c = "?" -> 63
      [] c = "\r" -> 13
      [] c = "O" -> 79
      [] c = "K" -> 75
      [] OTHER -> 48 + DigitVal(c)

\* response[0] of a non-empty bytes value: an int
Index0(r) == PyInt(Ord(r.s[1]))

\* response[:-4]
DropLast4(s) == SubSeq(s, 1, Len(s) - 4)

TelemetryOps ==
    {"fet_temp_check", "resonator_temp_check", "fet_voltage_check",
     "diode_current_check", "bank_voltage_check", "laser_ID_check",
     "latched_status_check", "system_shot_count_check"}

\* the telemetry queries, from the response of their command on
TelemetryResult(op, r) ==
    IF r.ty = "NoneType" THEN Raised("TypeError", PyNone)
    ELSE IF Len(r.s) = 0 THEN Raised("IndexError", PyNone)
    ELSE IF PyEq(Index0(r), PyBytes(<<"?">>))
        THEN LaserCommandError(get_error_code_description(r))
    ELSE IF op \in {"fet_temp_check", "resonator_temp_check",
                    "fet_voltage_check", "diode_current_check"}
        THEN Returned(PyBytes(DropLast4(r.s)))
    ELSE LET response_str == PyStr(DropLast(r.s)) IN
        IF op \in {"laser_ID_check", "latched_status_check"}
        THEN Returned(response_str)
        ELSE IF ~IsIntLiteral(response_str.s) THEN Raised("ValueError", PyNone)
        ELSE IF op = "bank_voltage_check"
        THEN Returned(ToFloat(PyInt(ParseDec(response_str.s))))
        ELSE Returned(PyInt(ParseDec(response_str.s)))

\* --------------------------------------------------------- _send_command

\* the check of self.connected is left out
NotConnected_Unchecked == FALSE

\* if not self.connected: raise ConnectionError
NotConnected == ~connected

\* the exchange does not wait for the lock
LockFree_NoLock == TRUE

\* with self._lock: the lock can be taken
LockFree == lock = NoThread

\* ---------------------------------------- what an operation does with the
\* ---------------------------------------- response of its _send_command

AckOps == {"emergency_stop", "arm", "disarm"}
QueryOps == {"get_status", "check_armed"}
UpdateOps == {"update_settings", "editConstants"}

\* emergency_stop, arm, disarm
AfterAck(t, r) ==
    /\ locals' = [locals EXCEPT ![t].response = r]
    /\ IF PyEq(r, OK) THEN Done(t, Returned(PyTrue))
       ELSE Done(t, LaserCommandError(get_error_code_description(r)))
    /\ UNCHANGED <<config, kicker_control>>

\* the setter assigns whatever the device answered
AfterSetter_NoCheck(t, r) ==
    /\ locals' = [locals EXCEPT ![t].response = r]
    /\ config' = SetterCommit(call[t].op, call[t].arg, config)
    /\ Done(t, Returned(PyTrue))
    /\ UNCHANGED kicker_control

\* the eight setters
AfterSetter(t, r) ==
    /\ locals' = [locals EXCEPT ![t].response = r]
    /\ IF PyEq(r, OK)
       THEN /\ config' = SetterCommit(call[t].op, call[t].arg, config)
            /\ Done(t, Returned(PyTrue))
       ELSE /\ UNCHANGED config
            /\ Done(t, LaserCommandError(get_error_code_description(r)))
    /\ UNCHANGED kicker_control

\* get_status and check_armed called by the caller
AfterQuery(t, r) ==
    /\ locals' = [locals EXCEPT ![t].response = r]
    /\ Done(t, IF call[t].op = "get_status" THEN GetStatusResult(r)
               ELSE CheckArmedResult(r))
    /\ UNCHANGED <<config, kicker_control>>

\* the telemetry queries called by the caller
AfterTelemetry(t, r) ==
    /\ locals' = [locals EXCEPT ![t].response = r]
    /\ Done(t, TelemetryResult(call[t].op, r))
    /\ UNCHANGED <<config, kicker_control>>

\* update_settings: for i in cmd_strings: self._send_command(i)
AfterUpdate(t, r) ==
    /\ IF locals[t].i < Len(locals[t].cmd_strings)
       THEN /\ locals' = [locals EXCEPT ![t].i = @ + 1]
            /\ SendNext(t, locals[t].cmd_strings[locals[t].i + 1], "update")
       ELSE /\ UNCHANGED locals
            /\ Done(t, Returned(IF call[t].op = "laser_reset" THEN PyTrue
                                ELSE PyNone))
    /\ UNCHANGED <<config, kicker_control>>

\* laser_reset, from the response of 'RS' on: editConstants() with its
\* defaults, which ends in update_settings
AfterReset(t, r) ==
    IF stage[t] = "update" THEN AfterUpdate(t, r)
    ELSE IF PyEq(r, OK)
    THEN /\ config' = ConfigOf(DefaultArgs)
         /\ locals' = [locals EXCEPT
                ![t].cmd_strings = UpdateCmds(ConfigOf(DefaultArgs)),
                ![t].i = 1]
         /\ SendNext(t, UpdateCmds(ConfigOf(DefaultArgs))[1], "update")
         /\ UNCHANGED kicker_control
    ELSE /\ Done(t, LaserCommandError(get_error_code_description(r)))
         /\ UNCHANGED <<config, locals, kicker_control>>

\* ------------------------------------------------------------- fire_laser

\* status != '3075' and status != '11267'
StatusMismatch(status) ==
    /\ PyNe(status, PyStr(<<"3", "0", "7", "5">>))
    /\ PyNe(status, PyStr(<<"1", "1", "2", "6", "7">>))

\* the laser is declared failed without the abort command
FireAbort_NoStop(t) ==
    Done(t, LaserCommandError(PyStr(<<"Laser Failed to Fire">>)))

\* self._send_command('FL 0')  # aborts if laser fails to fire
FireAbort(t) == SendNext(t, CmdFL0, "abort")

\* the else branch of the status check: sleep as the pulse mode says
FireWait(t) ==
    IF PyEq(config.pulseMode, PyInt(CONTINUOUS)) THEN
        /\ SleepNext(t, "wait")
        /\ UNCHANGED kicker_control
    ELSE IF PyEq(config.pulseMode, PyInt(SINGLE_SHOT)) THEN
        /\ SleepNext(t, "wait")
        /\ UNCHANGED kicker_control
    ELSE IF PyEq(config.pulseMode, PyInt(BURST)) THEN
        IF config.burstDuration.n >= 2 * Unit
        THEN /\ kicker_control' = TRUE
             /\ SleepNext(t, "wait_kick")
        ELSE /\ SleepNext(t, "wait")
             /\ UNCHANGED kicker_control
    ELSE /\ SendNext(t, CmdFL0, "stop")
         /\ UNCHANGED kicker_control

\* the energy mode is not looked at
LowEnergy_Unchecked == FALSE

\* if self.energyMode == self.LOW_ENERGY
LowEnergy == PyEq(config.energyMode, PyInt(LOW_ENERGY))

AfterFire(t, r) ==
    CASE stage[t] = "FL1" ->
            /\ IF PyNe(r, OK)
               THEN /\ Done(t, LaserCommandError(get_error_code_description(r)))
                    /\ UNCHANGED locals
               ELSE /\ locals' = [locals EXCEPT ![t].fire_response = r]
                    /\ SendNext(t, CmdSS, "SS")
            /\ UNCHANGED <<config, kicker_control>>
      [] stage[t] = "SS" ->
            LET g == GetStatusResult(r) IN
            /\ IF g.kind = "raise"
               THEN /\ Done(t, g)
                    /\ UNCHANGED locals
               ELSE /\ locals' = [locals EXCEPT ![t].status = g.val]
                    /\ IF LowEnergy
                       THEN Done(t, LaserCommandError(
                                PyStr(<<"Laser is in Low Energy Mode">>)))
                       ELSE SendNext(t, CmdEN, "EN")
            /\ UNCHANGED <<config, kicker_control>>
      [] stage[t] = "EN" ->
            LET a == CheckArmedResult(r) IN
            /\ IF a.kind = "raise"
               THEN Done(t, a) /\ UNCHANGED <<kicker_control, locals>>
               ELSE /\ locals' = [locals EXCEPT ![t].armed = a.val]
                    /\ IF ~Truthy(a.val)
                       THEN /\ Done(t, LaserCommandError(
                                        PyStr(<<"Laser not armed">>)))
                            /\ UNCHANGED kicker_control
                       ELSE IF StatusMismatch(locals[t].status)
                       THEN FireAbort(t) /\ UNCHANGED kicker_control
                       ELSE FireWait(t)
            /\ UNCHANGED config
      [] stage[t] = "abort" ->
            /\ Done(t, LaserCommandError(PyStr(<<"Laser Failed to Fire">>)))
            /\ UNCHANGED <<config, locals, kicker_control>>
      [] stage[t] = "stop" ->
            /\ Done(t, Returned(PyNone))
            /\ UNCHANGED <<config, locals, kicker_control>>

\* the caller of _send_command goes on with the response r
After(t, r) ==
    CASE call[t].op \in AckOps -> AfterAck(t, r)
      [] call[t].op \in Setters -> AfterSetter(t, r)
      [] call[t].op \in QueryOps -> AfterQuery(t, r)
      [] call[t].op \in TelemetryOps -> AfterTelemetry(t, r)
      [] call[t].op \in UpdateOps -> AfterUpdate(t, r)
      [] call[t].op = "laser_reset" -> AfterReset(t, r)
      [] call[t].op = "fire_laser" -> AfterFire(t, r)

\* _send_command up to the write: the empty command returns at once, a
\* controller that is not connected raises, otherwise the lock is taken and
\* the frame written (self._ser is None: the write raises inside the with
\* block, which releases the lock).
Send(t) ==
    /\ pc[t] = "send"
    /\ IF Len(cmd[t]) = 0 THEN
            /\ After(t, PyNone)
            /\ UNCHANGED <<lock, wire, sent>>
       ELSE IF NotConnected THEN
            /\ Done(t, Raised("ConnectionError", PyStr(<<"Not connected to a serial port. Please call connect() before issuing any commands!">>)))
            /\ UNCHANGED <<lock, wire, sent, config, locals, kicker_control>>
       ELSE /\ LockFree
            /\ IF ser = <<>> THEN
                    /\ Done(t, Raised("AttributeError", PyNone))
                    /\ UNCHANGED <<lock, wire, sent>>
               ELSE /\ lock' = t
                    /\ Write(t, PyBytes(Frame(cmd[t])))
                    /\ sent' = Set(sent, t, Append(sent[t], cmd[t]))
                    /\ pc' = Set(pc, t, "read")
                    /\ UNCHANGED <<cmd, stage, result>>
            /\ UNCHANGED <<config, locals, kicker_control>>
    /\ UNCHANGED <<codec, connected, ser, startup, call, calls>>

\* _send_command from the read on: the device's response (or none within the
\* timeout) is read, the lock released, and the caller goes on with it.
Recv(t) ==
    /\ pc[t] = "read"
    /\ \E r \in Responses :
        /\ lock' = NoThread
        /\ wire' = NoWrite
        /\ After(t, r)
    /\ UNCHANGED <<codec, connected, ser, startup, call, sent, calls>>

\* ----------------------------------------------------------------- connect

\* serial.tools.list_ports.comports()
comports == {"p0"}

\* serial.Serial(port=port_number): pyserial's defaults
Serial(port) ==
    [port |-> port, baudrate |-> PyInt(9600), timeout |-> PyNone, parity |-> "N"]

ParityNames == [none |-> "N", even |-> "E", odd |-> "O", mark |-> "M", space |-> "S"]

ParityKnown(parity) ==
    parity.ty = "str" /\ Len(parity.s) = 1 /\ parity.s[1] \in DOMAIN ParityNames

\* The body of connect under the lock, up to the kicker: the Serial object
\* left in self._ser (<<>>: none was made) and whether a ValueError is raised.
ConnectBody(a) ==
    IF a.port \notin comports THEN [ser |-> ser, raises |-> TRUE]
    ELSE LET s0 == Serial(a.port) IN
    IF ~(Truthy(a.baud_rate) /\ a.baud_rate.ty \in {"int", "bool"})
        THEN [ser |-> <<s0>>, raises |-> TRUE]
    ELSE LET s1 == [s0 EXCEPT !.baudrate = a.baud_rate] IN
    IF ~(Truthy(a.timeout) /\ a.timeout.ty \in {"int", "bool"})
        THEN [ser |-> <<s1>>, raises |-> TRUE]
    ELSE LET s2 == [s1 EXCEPT !.timeout = a.timeout] IN
    IF ~Truthy(a.parity) \/ PyEq(a.parity, PyStr(<<"none">>))
        THEN [ser |-> <<[s2 EXCEPT !.parity = "N"]>>, raises |-> FALSE]
    ELSE IF ParityKnown(a.parity)
        THEN [ser |-> <<[s2 EXCEPT !.parity = ParityNames[a.parity.s[1]]]>>,
              raises |-> FALSE]
    ELSE [ser |-> <<s2>>, raises |-> TRUE]

DefaultConnect ==
    [port |-> "p0", baud_rate |-> PyInt(115200), timeout |-> PyInt(1),
     parity |-> PyNone]

\* The connect calls the callers try: the defaults, and one call for each
\* check that can reject.
ConnectArgs ==
    { DefaultConnect,
      [DefaultConnect EXCEPT !.port = "p9"],
      [DefaultConnect EXCEPT !.baud_rate = PyInt(0)],
      [DefaultConnect EXCEPT !.timeout = PyInt(0)],
      [DefaultConnect EXCEPT !.parity = PyStr(<<"even">>)],
      [DefaultConnect EXCEPT !.parity = PyStr(<<"both">>)] }

\* connect, once it holds the lock: a rejected argument raises ValueError
\* and the with block releases the lock; otherwise, on startup, the thread
\* constructor's argument self._kicker() is evaluated: the caller's thread
\* enters the kicker loop, inside the with block.  (The lines after it, which
\* append and start the thread and clear _startup, follow a call that does
\* not return.)
Connect(t) ==
    /\ pc[t] = "connect"
    /\ LockFree
    /\ LET b == ConnectBody(call[t].arg) IN
        /\ ser' = b.ser
        /\ IF b.raises THEN
                /\ Done(t, Raised("ValueError", PyNone))
                /\ UNCHANGED lock
           ELSE IF startup THEN
                /\ lock' = t
                /\ pc' = Set(pc, t, "kicker")
                /\ UNCHANGED <<cmd, stage, result>>
           ELSE /\ Done(t, Returned(PyNone))
                /\ UNCHANGED lock
    /\ UNCHANGED <<codec, connected, startup, kicker_control, config, call, locals,
                   sent, wire, calls>>

\* ----------------------------------------------------------------- _kicker

\* The writes of the kicker are recorded up to MaxKicks of them.
MaxKicks == 3

\* one turn of while True, up to the sleep: if self._kicker_control:
\* self._ser.write('SS?')
Kicker(t) ==
    /\ pc[t] = "kicker"
    /\ IF kicker_control
       THEN /\ Write(t, PyStr(CmdSS))
            /\ sent' = [sent EXCEPT ![t] =
                    IF Len(@) < MaxKicks THEN Append(@, CmdSS) ELSE @]
       ELSE UNCHANGED <<wire, sent>>
    /\ pc' = Set(pc, t, "sleep")
    /\ UNCHANGED <<codec, connected, ser, startup, kicker_control, lock, config,
                   call, stage, cmd, locals, result, calls>>

\* time.sleep returns: the kicker goes round its loop; fire_laser clears
\* _kicker_control if it had set it and sends the closing 'FL 0'.
SleepReturn(t) ==
    /\ pc[t] = "sleep"
    /\ IF call[t].op = "connect" THEN
            /\ pc' = Set(pc, t, "kicker")
            /\ UNCHANGED <<kicker_control, cmd, stage, result>>
       ELSE /\ kicker_control' =
                    (IF stage[t] = "wait_kick" THEN FALSE ELSE kicker_control)
            /\ SendNext(t, CmdFL0, "stop")
    /\ UNCHANGED <<codec, connected, ser, startup, lock, config, call, locals, sent,
                   wire, calls>>

\* ---------------------------------------------------------------- callers

\* the first command of the operations that take no argument
FirstCmd ==
    [emergency_stop |-> CmdFL0, arm |-> CmdEN1, disarm |-> CmdEN0,
     get_status |-> CmdSS, check_armed |-> CmdEN, fire_laser |-> CmdFL1,
     laser_reset |-> CmdRS,
     fet_temp_check |-> <<"F", "T", "?">>,
     resonator_temp_check |-> <<"T", "R", "?">>,
     fet_voltage_check |-> <<"F", "V", "?">>,
     diode_current_check |-> <<"I", "M", "?">>,
     bank_voltage_check |-> <<"B", "V", "?">>,
     laser_ID_check |-> <<"I", "D", "?">>,
     latched_status_check |-> <<"L", "S", "?">>,
     system_shot_count_check |-> <<"S", "C", "?">>]

FirstStage(op) ==
    IF op = "fire_laser" THEN "FL1" ELSE IF op = "laser_reset" THEN "RS" ELSE ""

\* The arguments of editConstants the callers try: the defaults, and the
\* burst of 20 shots at 5 Hz.
EditArgs ==
    { DefaultArgs,
      [DefaultArgs EXCEPT !.pulseMode = PyInt(2), !.repRate = PyInt(5),
                          !.burstCount = PyInt(20)] }

\* The operations each caller's thread calls: t1 the whole interface, t2
\* the calls made from a second execution context.
Api(t) ==
    IF t = "t1"
    THEN DOMAIN FirstCmd \cup Setters \cup UpdateOps \cup {"connect"}
    ELSE {"connect", "emergency_stop"}

Entered(t, op, arg) ==
    /\ pc[t] = "idle"
    /\ op \in Api(t)
    /\ calls < MaxCalls
    /\ calls' = calls + 1
    /\ call' = Set(call, t, [op |-> op, arg |-> arg])

\* a caller calls emergency_stop, arm, disarm, get_status, check_armed,
\* fire_laser or laser_reset
CallSimple(t, op) ==
    /\ Entered(t, op, PyNone)
    /\ SendNext(t, FirstCmd[op], FirstStage(op))
    /\ UNCHANGED <<codec, connected, ser, startup, kicker_control, lock, config,
                   locals, sent, wire>>

\* a caller calls a setter
CallSetter(t, op, v) ==
    /\ Entered(t, op, v)
    /\ IF SetterInvalid(op, v)
       THEN Done(t, Raised("ValueError", PyNone))
       ELSE SendNext(t, SetterCmd(op, v), "")
    /\ UNCHANGED <<codec, connected, ser, startup, kicker_control, lock, config,
                   locals, sent, wire>>

\* a caller calls update_settings
CallUpdateSettings(t) ==
    /\ Entered(t, "update_settings", PyNone)
    /\ locals' = [locals EXCEPT ![t].cmd_strings = UpdateCmds(config),
                                ![t].i = 1]
    /\ SendNext(t, UpdateCmds(config)[1], "update")
    /\ UNCHANGED <<codec, connected, ser, startup, kicker_control, lock, config,
                   sent, wire>>

\* a caller calls editConstants
CallEditConstants(t, a) ==
    /\ Entered(t, "editConstants", a)
    /\ config' = ConfigOf(a)
    /\ locals' = [locals EXCEPT ![t].cmd_strings = UpdateCmds(ConfigOf(a)),
                                ![t].i = 1]
    /\ SendNext(t, UpdateCmds(ConfigOf(a))[1], "update")
    /\ UNCHANGED <<codec, connected, ser, startup, kicker_control, lock, sent, wire>>

\* a caller calls connect: it waits for the lock
CallConnect(t, a) ==
    /\ Entered(t, "connect", a)
    /\ pc' = Set(pc, t, "connect")
    /\ UNCHANGED <<codec, connected, ser, startup, kicker_control, lock, config,
                   stage, cmd, locals, result, sent, wire>>

\* the caller has the operation's result and is free to call again
Return(t) ==
    /\ pc[t] = "done"
    /\ pc' = Set(pc, t, "idle")
    /\ call' = Set(call, t, NoCall)
    /\ stage' = Set(stage, t, "")
    /\ cmd' = Set(cmd, t, <<>>)
    /\ locals' = Set(locals, t, NoLocals)
    /\ result' = Set(result, t, NoResult)
    /\ sent' = Set(sent, t, <<>>)
    /\ UNCHANGED <<codec, connected, ser, startup, kicker_control, lock, config, wire,
                   calls>>

\* No method assigns True to the public attribute connected; the caller
\* marks the controller connected itself.
MarkConnected ==
    /\ ~connected
    /\ connected' = TRUE
    /\ UNCHANGED <<codec, ser, startup, kicker_control, lock, config, pc, call,
                   stage, cmd, locals, result, sent, wire, calls>>

Next ==
    \/ \E t \in Threads, op \in DOMAIN FirstCmd : CallSimple(t, op)
    \/ \E t \in Threads, op \in Setters : \E v \in SetterArgs(op) :
            CallSetter(t, op, v)
    \/ \E t \in Threads : CallUpdateSettings(t)
    \/ \E t \in Threads, a \in EditArgs : CallEditConstants(t, a)
    \/ \E t \in Threads, a \in ConnectArgs : CallConnect(t, a)
    \/ \E t \in Threads : Connect(t)
    \/ \E t \in Threads : Kicker(t)
    \/ \E t \in Threads : SleepReturn(t)
    \/ \E t \in Threads : Send(t)
    \/ \E t \in Threads : Recv(t)
    \/ \E t \in Threads : Return(t)
    \/ MarkConnected

Spec == Init /\ [][Next]_vars

\* Every thread that can run does run, and a thread waiting for the lock gets
\* it if the lock is free again and again; the callers need not call.
Fairness ==
    \A t \in Threads :
        /\ WF_vars(Connect(t))
        /\ WF_vars(Kicker(t))
        /\ WF_vars(SleepReturn(t))
        /\ SF_vars(Send(t))
        /\ WF_vars(Recv(t))

FairSpec == Spec /\ Fairness

\* ------------------------------------------ the LaserStatusResponse codec

\* The status words 0 .. MaxWord are decoded: the bits 0 .. 14.
MaxWord == 32767

\* status = LaserStatusResponse(str(word))
Decode ==
    /\ codec.status = PyNone
    /\ codec' = [codec EXCEPT
            !.status = LaserStatusResponse(ParseDec(DecStr(codec.word)))]
    /\ UNCHANGED laser_vars

\* text = str(status)
Encode ==
    /\ codec.status # PyNone
    /\ codec.text = <<>>
    /\ codec' = [codec EXCEPT !.text = StatusStr(codec.status)]
    /\ UNCHANGED laser_vars

\* again = LaserStatusResponse(text)
Redecode ==
    /\ codec.text # <<>>
    /\ codec.again = PyNone
    /\ codec' = [codec EXCEPT !.again = LaserStatusResponse(ParseDec(codec.text))]
    /\ UNCHANGED laser_vars

CodecInit ==
    /\ LaserInit
    /\ \E w \in 0..MaxWord : codec = [NoCodec EXCEPT !.word = w]

CodecNext == Decode \/ Encode \/ Redecode

CodecSpec == CodecInit /\ [][CodecNext]_vars

\* ================================================================ claims

FireDone(t) == pc[t] = "done" /\ call[t].op = "fire_laser"

\* the case of fire_laser past its checks: 'FL 1' acknowledged with OK, the
\* energy mode not Low, the device reporting armed
FirePastChecks(t) ==
    /\ FireDone(t)
    /\ locals[t].fire_response = OK
    /\ config.energyMode # PyInt(LOW_ENERGY)
    /\ locals[t].armed = PyTrue

FailedToFire(t) ==
    result[t] = LaserCommandError(PyStr(<<"Laser Failed to Fire">>))

Count(s, c) == Cardinality({i \in 1..Len(s) : s[i] = c})

\* C1: a fire_laser that got past its checks has written 'FL 0' exactly
\* once when it ends, and it ends either with 'Laser Failed to Fire' or by
\* returning.
C1_StopSentOnce ==
    \A t \in Threads : FirePastChecks(t) =>
        /\ Count(sent[t], CmdFL0) = 1
        /\ FailedToFire(t) \/ result[t].kind = "return"

C1_Witness ==
    \E t \in Threads :
        FirePastChecks(t) /\ FailedToFire(t) /\ Count(sent[t], CmdFL0) = 1

InFlight == {t \in Threads : pc[t] = "read"}

Wrote(t) == wire' # wire /\ wire'.by = t

\* C2: no caller writes to the transport while another caller's exchange is
\* between its write and its read, and at most one exchange is in flight.
C2_OneExchangeInFlight ==
    [][/\ \A t \in Threads : Wrote(t) => InFlight \subseteq {t}
       /\ Cardinality({t \in Threads : pc'[t] = "read"}) <= 1]_vars

C2_Witness ==
    /\ connected
    /\ pc["t1"] = "read"
    /\ pc["t2"] = "send"

KickerRunning(t) == call[t].op = "connect" /\ pc[t] \in {"kicker", "sleep"}

\* a connect call that acquired the port and accepted baud rate, timeout
\* and parity
ConnectAccepted(t) ==
    \/ KickerRunning(t)
    \/ call[t].op = "connect" /\ pc[t] = "done" /\ result[t].kind = "return"

\* C3: after a connect call that was accepted, the controller is Connected.
C3_AcceptedConnectConnects ==
    \A t \in Threads : ConnectAccepted(t) => connected

\* C4: while the controller is Disconnected nothing is written to the
\* transport, and every operation that issued a command has failed with
\* ConnectionError.
C4_DisconnectedNoWrite ==
    ~connected =>
        /\ wire = NoWrite
        /\ \A t \in Threads :
            /\ sent[t] = <<>>
            /\ pc[t] # "read"
            /\ (pc[t] = "done" /\ cmd[t] # <<>>) =>
                    (result[t].kind = "raise" /\ result[t].exc = "ConnectionError")

C4_Witness ==
    \E t \in Threads :
        /\ ~connected
        /\ pc[t] = "done"
        /\ cmd[t] # <<>>
        /\ result[t].exc = "ConnectionError"

\* C5: while the kicker loop runs, the connect call that started it holds
\* the lock no more (it has returned to its caller).
C5_KickerIndependent ==
    \A t \in Threads : KickerRunning(t) => lock # t

\* C6: once the kicker has been started the startup flag is cleared, and no
\* second kicker runs.
C6_KickerStartedOnce ==
    /\ (\E t \in Threads : KickerRunning(t)) => ~startup
    /\ Cardinality({t \in Threads : KickerRunning(t)}) <= 1

NominalCodes == {<<"3", "0", "7", "5">>, <<"1", "1", "2", "6", "7">>}

\* C7: a fire_laser past its checks whose status encodes to 3075 or 11267
\* returns normally, and with any other status it fails with 'Laser Failed
\* to Fire' after sending 'FL 0'.
C7_NominalStatusCompletes ==
    \A t \in Threads : FirePastChecks(t) =>
        IF StatusStr(locals[t].status) \in NominalCodes
        THEN result[t].kind = "return"
        ELSE FailedToFire(t) /\ Count(sent[t], CmdFL0) = 1

FieldOf ==
    [set_pulse_mode |-> "pulseMode", set_pulse_period |-> "pulsePeriod",
     set_diode_trigger |-> "diodeTrigger", set_pulse_width |-> "pulseWidth",
     set_burst_count |-> "burstCount", set_rep_rate |-> "repRate",
     set_diode_current |-> "diodeCurrent", set_energy_mode |-> "energyMode"]

SetterEnds(t) ==
    pc[t] = "read" /\ call[t].op \in Setters /\ pc'[t] = "done"

\* C8: the step in which a setter gets the device's response assigns the
\* new value and returns True if the response is exactly b"OK\r", and
\* otherwise leaves every field of the configuration as it was and raises
\* LaserCommandError.
C8_SetterCommitsOnOK ==
    [][\A t \in Threads : SetterEnds(t) =>
        IF locals'[t].response = OK
        THEN /\ config'[FieldOf[call[t].op]].n = call[t].arg.n
             /\ result'[t] = Returned(PyTrue)
        ELSE /\ config' = config
             /\ result'[t].kind = "raise"
             /\ result'[t].exc = "LaserCommandError"]_vars

C8_Witness ==
    \E t \in Threads :
        /\ pc[t] = "done"
        /\ call[t].op \in Setters
        /\ locals[t].response = PyBytes(<<"?", "5", "\r">>)
        /\ result[t].exc = "LaserCommandError"

\* C9: the burst duration is the burst count divided by the repetition rate.
C9_BurstDuration ==
    config.burstDuration.n * config.repRate.n = config.burstCount.n * Unit

\* C10: the step in which set_diode_current gets the device's response
\* leaves the energy mode Manual if the response is exactly b"OK\r", and
\* otherwise leaves the energy mode as it was.
C10_DiodeCurrentForcesManual ==
    [][\A t \in Threads :
        (SetterEnds(t) /\ call[t].op = "set_diode_current") =>
            IF locals'[t].response = OK
            THEN config'.energyMode = PyInt(MANUAL_ENERGY)
            ELSE config'.energyMode = config.energyMode]_vars

C10_Witness ==
    \E t \in Threads :
        /\ pc[t] = "done"
        /\ call[t].op = "set_diode_current"
        /\ locals[t].response = OK
        /\ result[t] = Returned(PyTrue)
        /\ config.energyMode = PyInt(MANUAL_ENERGY)

\* the arguments outside the documented domains
OutsideDomain(op, v) ==
    CASE op = "set_rep_rate" -> v.n < 1 * Unit \/ v.n > 5 * Unit
      [] op \in {"set_pulse_mode", "set_energy_mode"} ->
            v.n \notin {0, Unit, 2 * Unit}
      [] op = "set_diode_trigger" -> v.n \notin {0, Unit}
      [] op \in {"set_burst_count", "set_pulse_width", "set_diode_current"} ->
            v.n <= 0
      [] OTHER -> FALSE

RejectedCall(t) ==
    call[t].op \in Setters /\ OutsideDomain(call[t].op, call[t].arg)

\* C11: a setter called with an argument outside its domain raises
\* ValueError in the step of the call, with nothing written to the transport
\* and the configuration as it was, whether or not the controller is
\* connected; it never gets to send a command.
C11_InvalidArgumentRejected ==
    [][\A t \in Threads :
        /\ (pc[t] = "idle" /\ RejectedCall(t)') =>
                /\ config' = config
                /\ wire' = wire
        /\ RejectedCall(t)' =>
                /\ pc'[t] = "done"
                /\ result'[t].kind = "raise"
                /\ result'[t].exc = "ValueError"
                /\ sent'[t] = <<>>
                /\ cmd'[t] = <<>>]_vars

C11_Witness ==
    \E t \in Threads :
        /\ ~connected
        /\ call[t] = [op |-> "set_rep_rate", arg |-> PyInt(6)]
        /\ pc[t] = "done"
        /\ result[t].exc = "ValueError"
        /\ sent[t] = <<>>

\* the descriptions of the error codes ?1 .. ?8
MappedDescription ==
    [c1 |-> "Command not recognized.", c2 |-> "Missing command keyword.",
     c3 |-> "Invalid command keyword.", c4 |-> "Missing Parameter",
     c5 |-> "Invalid Parameter",
     c6 |-> "Query only. Command needs a question mark.",
     c7 |-> "Invalid query. Command does not have a query function.",
     c8 |-> "Command unavailable in current system state."]

ErrorFrames ==
    [c5 |-> PyBytes(<<"?", "5", "\r">>), c8 |-> PyBytes(<<"?", "8", "\r">>)]

\* C12: arm, disarm, emergency_stop or a setter answered with the error
\* frame '?N\r' fails with the description mapped to N.
C12_ErrorFrameMapped ==
    \A t \in Threads : \A c \in DOMAIN ErrorFrames :
        ( /\ pc[t] = "done"
          /\ call[t].op \in AckOps \cup Setters
          /\ locals[t].response = ErrorFrames[c] ) =>
            result[t] = LaserCommandError(PyStr(<<MappedDescription[c]>>))

\* a response that begins with '?'
BeginsWithQuery(r) == r.ty = "bytes" /\ Len(r.s) > 0 /\ r.s[1] = "?"

CheckArmedDone(t) == pc[t] = "done" /\ call[t].op = "check_armed"

\* C13: check_armed answered with bytes that begin with '?' raises
\* LaserCommandError; answered with other bytes it returns True when the
\* first byte is '1' and a false value otherwise.
C13_CheckArmedAnswer ==
    \A t \in Threads :
        (CheckArmedDone(t) /\ locals[t].response.ty = "bytes"
            /\ Len(locals[t].response.s) > 0) =>
            IF BeginsWithQuery(locals[t].response)
            THEN result[t].kind = "raise" /\ result[t].exc = "LaserCommandError"
            ELSE /\ result[t].kind = "return"
                 /\ Truthy(result[t].val) <=> locals[t].response.s[1] = "1"

\* fire_laser of thread t gets the response of one of its exchanges
FireResponse(t) ==
    call[t].op = "fire_laser" /\ pc[t] = "read" /\ pc'[t] # "read"

LowEnergyFailure == LaserCommandError(PyStr(<<"Laser is in Low Energy Mode">>))
NotArmedFailure == LaserCommandError(PyStr(<<"Laser not armed">>))

Burst20At5 ==
    /\ config.pulseMode.n = BURST * Unit
    /\ config.burstCount.n = 20 * Unit
    /\ config.repRate.n = 5 * Unit
    /\ config.burstDuration.n = 4 * Unit

\* C15: a fire_laser of a 4 second burst whose status encodes to a nominal
\* code has _kicker_control set while it sleeps, and when it ends it has
\* returned and the kicker has written 'SS?' at least 3 times.
C15_BurstWaitKicked ==
    \A t \in Threads : Burst20At5 =>
        /\ (call[t].op = "fire_laser" /\ pc[t] = "sleep") => kicker_control
        /\ (FirePastChecks(t) /\ StatusStr(locals[t].status) \in NominalCodes) =>
                /\ result[t].kind = "return"
                /\ \E k \in Threads :
                        KickerRunning(k) /\ Count(sent[k], CmdSS) >= 3

QueryDone(t) ==
    pc[t] = "done" /\ call[t].op \in TelemetryOps \cup {"get_status"}

\* C16: a telemetry query or get_status whose response begins with '?' raises
\* LaserCommandError; it does not return.
C16_QueryErrorRaised ==
    \A t \in Threads :
        (QueryDone(t) /\ BeginsWithQuery(locals[t].response)) =>
            result[t].kind = "raise" /\ result[t].exc = "LaserCommandError"

\* the positions of the eleven bits of the status word
DefinedBits == {0, 1, 3, 6, 7, 8, 9, 10, 11, 12, 13}

RECURSIVE Pow2(_)
Pow2(k) == IF k = 0 THEN 1 ELSE 2 * Pow2(k - 1)

\* the word w with every bit outside the eleven cleared
RECURSIVE MaskedFrom(_, _)
MaskedFrom(w, k) ==
    IF w = 0 THEN 0
    ELSE (IF k \in DefinedBits THEN (w % 2) * Pow2(k) ELSE 0)
         + MaskedFrom(w \div 2, k + 1)

\* C17: str(LaserStatusResponse(w)) is the decimal of w with the bits outside
\* the eleven cleared, and decoding that text again gives the same fields.
C17_CodecRoundTrip ==
    /\ codec.text # <<>> => codec.text = DecStr(MaskedFrom(codec.word, 0))
    /\ codec.again # PyNone => codec.again = codec.status

C17_Witness ==
    /\ codec.word = 3075 + 4 + 16384
    /\ codec.text = <<"3", "0", "7", "5">>
    /\ codec.again = codec.status

\* the bit position of each field of the status
StatusBit ==
    [laser_enabled |-> 0, laser_active |-> 1, diode_external_trigger |-> 3,
     external_interlock |-> 6, resonator_over_temp |-> 7,
     electrical_over_temp |-> 8, power_failure |-> 9, ready_to_enable |-> 10,
     ready_to_fire |-> 11, low_power_mode |-> 12, high_power_mode |-> 13]

\* the decimal status responses of the device and the words they carry
StatusResponses ==
    { <<PyBytes(<<"3", "0", "7", "5", "\r">>), 3075>>,
      <<PyBytes(<<"1", "1", "2", "6", "7", "\r">>), 11267>>,
      <<PyBytes(<<"1", "\r">>), 1>>, <<PyBytes(<<"0", "\r">>), 0>> }

HasField(status, f) == \E j \in 1..Len(status.s) : status.s[j] = f

GetStatusDone(t) == pc[t] = "done" /\ call[t].op = "get_status"

\* C18: get_status answered with a decimal status returns a
\* LaserStatusResponse in which each field is true iff its bit of the word
\* is set.
C18_StatusDecoded ==
    \A t \in Threads : \A rw \in StatusResponses :
        (GetStatusDone(t) /\ locals[t].response = rw[1]) =>
            /\ result[t].kind = "return"
            /\ result[t].val.ty = "LaserStatusResponse"
            /\ \A f \in DOMAIN StatusBit :
                    HasField(result[t].val, f)
                        <=> (rw[2] \div Pow2(StatusBit[f])) % 2 = 1

C18_Witness ==
    \E t \in Threads :
        /\ GetStatusDone(t)
        /\ locals[t].response = PyBytes(<<"3", "0", "7", "5", "\r">>)
        /\ \A f \in {"laser_enabled", "laser_active", "ready_to_enable",
                     "ready_to_fire"} : HasField(result[t].val, f)
        /\ ~HasField(result[t].val, "power_failure")

\* the time fire_laser sleeps for, in units of 1/Unit second
WaitTime ==
    IF config.pulseMode.n = CONTINUOUS * Unit THEN config.pulsePeriod.n
    ELSE IF config.pulseMode.n = SINGLE_SHOT * Unit
        THEN (Unit * Unit) \div config.repRate.n
    ELSE config.burstDuration.n

InFireWait(t) == call[t].op = "fire_laser" /\ pc[t] = "sleep"

\* C19: _kicker_control is true only while a fire_laser is in its sleep and
\* that sleep is at least 2 seconds long: it is false before any fire_laser,
\* during shorter sleeps and once fire_laser has returned or raised.
C19_KickerControlOnlyInLongWait ==
    kicker_control =>
        \E t \in Threads : InFireWait(t) /\ WaitTime >= 2 * Unit

C19_Witness ==
    \E t \in Threads :
        /\ FirePastChecks(t)
        /\ Burst20At5
        /\ StatusStr(locals[t].status) \in NominalCodes
        /\ ~kicker_control

\* d is the bytes of one complete frame: ';', the address 'LA', ':', a
\* command text without '\r', and '\r'
IsFrame(d) ==
    /\ d.ty = "bytes"
    /\ Len(d.s) >= 5
    /\ SubSeq(d.s, 1, 4) = <<";", "L", "A", ":">>
    /\ \A i \in 1..Len(d.s) : d.s[i] = "\r" <=> i = Len(d.s)

\* thread t, running the kicker, goes through one turn of its loop
KickerTick(t) == pc[t] = "kicker" /\ pc'[t] = "sleep"

SettingsCommands(cfg) ==
    << <<"R", "R", " ">> \o Str(cfg.repRate),
       <<"B", "C", " ">> \o Str(cfg.burstCount),
       <<"D", "C", " ">> \o Str(cfg.diodeCurrent),
       <<"E", "M", " ">> \o Str(cfg.energyMode),
       <<"P", "M", " ">> \o Str(cfg.pulseMode),
       <<"D", "W", " ">> \o Str(cfg.pulseWidth),
       <<"D", "T", " ">> \o Str(cfg.diodeTrigger) >>

UpdateDone(t) ==
    pc[t] = "done" /\ call[t].op \in UpdateOps /\ result[t].kind = "return"

\* C21: an update_settings that has returned has written exactly the seven
\* commands RR, BC, DC, EM, PM, DW, DT in this order, each with the value of
\* its own field of the configuration, whatever the device answered.
C21_SettingsPushed ==
    \A t \in Threads : UpdateDone(t) => sent[t] = SettingsCommands(config)

\* emergency_stop of thread t is at its _send_command with the controller
\* connected and the port object there: it writes once it has the lock
StopWaiting(t) ==
    /\ call[t].op = "emergency_stop"
    /\ pc[t] = "send"
    /\ connected
    /\ ser # <<>>

StopWritten(t) ==
    /\ call[t].op = "emergency_stop"
    /\ wire = [by |-> t, data |-> PyBytes(Frame(CmdFL0))]

\* C22: under fair scheduling an emergency_stop that waits for the lock
\* eventually writes its 'FL 0' to the transport.
C22_StopEventuallyWritten ==
    \A t \in Threads : StopWaiting(t) ~> StopWritten(t)

\* C23: a fire_laser whose 'FL 1' was acknowledged with OK has written
\* 'FL 0' when it ends, however it ends.
C23_StopSentOnEveryExit ==
    \A t \in Threads :
        (FireDone(t) /\ locals[t].fire_response = OK) =>
            Count(sent[t], CmdFL0) >= 1

====
